---- MODULE Spec2Model ----
(***************************************************************************)
(* A model of zotero_notion_sync (src/zotero_notion_sync/zotero_to_notion.py *)
(* and decorators.py): the date normalizer, the staleness evaluator, the    *)
(* reference locator and the two sync entry points of class ZoteroToNotion. *)
(*                                                                          *)
(* Five specifications share the module:                                    *)
(*   SpecDates  parse_date and should_update_reference on date strings      *)
(*   SpecFind   find_reference_in_notion against a destination database     *)
(*   SpecMap    the field mapper's helpers and the two payloads             *)
(*   SpecFetch  the pagination loop of fetch_zotero_reference               *)
(*   Spec       sync_all_references_to_notion / sync_reference_to_notion    *)
(***************************************************************************)
EXTENDS Integers, Sequences, FiniteSets, TLC

VARIABLES
    \* ---- SpecDates
    notion_modified_date,   \* the destination's "Modified Date" start value
    zotero_modified_date,   \* the source's data.dateModified
    written_from,           \* the source string the destination value was normalised from
    decision,               \* the last result of should_update_reference
    \* ---- SpecFind
    f_title,                \* argument title of find_reference_in_notion
    f_names,                \* argument collection_names
    f_result,               \* what the call returned or raised
    \* ---- Spec (the orchestrator); notion is also read by SpecFind
    source,                 \* the source's item listing (unchanged between runs)
    catalog,                \* the source's collection catalog: identifier -> name
    notion,                 \* the destination database: records in server order
    mode,                   \* "idle", "full" or "single"
    pc,                     \* position of the running entry point
    prev,                   \* how the previous entry-point call went
    search_title,           \* the title typed at the prompt (single mode)
    references,             \* local variable references (Unbound before assignment)
    collections,            \* local variable collections (Unbound before assignment)
    idx,                    \* loop position in references
    sent,                   \* HTTP requests this run sent to the destination
    log,                    \* the orchestrator's per-reference log lines of this run
    faults,                 \* requests of this run that did not end "ok"
    fetched,                \* how the two source fetches of this run ended
    \* ---- SpecMap (the field mapper and its helpers)
    m_fn,                   \* the function that is called
    m_arg,                  \* its argument
    m_ret                   \* what the call returned or raised

dateVars == <<notion_modified_date, zotero_modified_date, written_from, decision>>
findVars == <<f_title, f_names, f_result>>
syncVars == <<source, catalog, mode, pc, prev, search_title, references,
              collections, idx, sent, log, faults, fetched>>
mapVars == <<m_fn, m_arg, m_ret>>
vars == <<dateVars, findVars, syncVars, notion, mapVars>>

(***************************************************************************)
(* Date strings.  A string is modelled by its shape (kind) and the fields   *)
(* the shape carries; strptime succeeds for a format exactly on the shape   *)
(* the format describes.  Hours stand for the whole time of day (minutes    *)
(* and seconds are zero); off is the UTC offset in hours.                   *)
(*   "None"   Python None            "empty"  ""                            *)
(*   "tz"     2024-01-DDThh:00:00+oo:00   "naive" 2024-01-DDThh:00:00       *)
(*   "date"   2024-01-DD             "ym"     2024/1      "y"  2024         *)
(*   "junkT"  a string holding a T that no format matches, such as          *)
(*            2024-01-01T10:00:00.000+00:00                                 *)
(*   "junk"   any other string, such as n.d.                                *)
(***************************************************************************)
MaxDay == 1

Days == 0..MaxDay
Hours == {0, 9, 10, 23}
Offsets == {-1, 0, 1}

DateStr(k, d, h, o) == [kind |-> k, day |-> d, hour |-> h, off |-> o]

NoneDate == DateStr("None", 0, 0, 0)
EmptyDate == DateStr("empty", 0, 0, 0)

DateStrings ==
    {NoneDate, EmptyDate, DateStr("junkT", 0, 0, 0), DateStr("junk", 0, 0, 0),
     DateStr("ym", 0, 0, 0), DateStr("y", 0, 0, 0)}
    \cup {DateStr("tz", d, h, o) : d \in Days, h \in Hours, o \in Offsets}
    \cup {DateStr("naive", d, h, 0) : d \in Days, h \in Hours}
    \cup {DateStr("date", d, 0, 0) : d \in Days}

\* `not s` for a str or None
Falsy(s) == s.kind \in {"None", "empty"}

\* "T" in s
ContainsT(s) == s.kind \in {"tz", "naive", "junkT"}

\* datetime objects; ok = FALSE stands for strptime raising ValueError
ParseFail == [ok |-> FALSE, day |-> 0, hour |-> 0, aware |-> FALSE, off |-> 0]
Datetime(d, h, a, o) == [ok |-> TRUE, day |-> d, hour |-> h, aware |-> a, off |-> o]

\* datetime.strptime(s, fmt)
strptime(s, fmt) ==
    CASE fmt = "%Y-%m-%dT%H:%M:%S%z" /\ s.kind = "tz"    -> Datetime(s.day, s.hour, TRUE, s.off)
      [] fmt = "%Y-%m-%dT%H:%M:%S"   /\ s.kind = "naive" -> Datetime(s.day, s.hour, FALSE, 0)
      [] fmt = "%Y-%m-%d"            /\ s.kind = "date"  -> Datetime(s.day, 0, FALSE, 0)
      [] fmt = "%Y/%m"               /\ s.kind = "ym"    -> Datetime(0, 0, FALSE, 0)
      [] fmt = "%Y"                  /\ s.kind = "y"     -> Datetime(0, 0, FALSE, 0)
      [] OTHER -> ParseFail

\* parsed.strftime(fmt): the offset of an aware datetime is not printed
strftime(dt, fmt) ==
    IF fmt = "%Y-%m-%dT%H:%M:%S"
    THEN DateStr("naive", dt.day, dt.hour, 0)
    ELSE DateStr("date", dt.day, 0, 0)

\* "%H:%M:%S" in date_format
HasHMS(fmt) == fmt \in {"%Y-%m-%dT%H:%M:%S%z", "%Y-%m-%dT%H:%M:%S"}

\* index of the first format of fmts that parses s, 0 when none does
RECURSIVE FirstMatch(_, _, _)
FirstMatch(s, fmts, k) ==
    IF k > Len(fmts) THEN 0
    ELSE IF strptime(s, fmts[k]).ok THEN k
    ELSE FirstMatch(s, fmts, k + 1)

date_formats == <<"%Y-%m-%dT%H:%M:%S%z", "%Y-%m-%d", "%Y/%m", "%Y">>

parse_date_date_only(date_str, include_time) ==
    IF Falsy(date_str) THEN NoneDate
    ELSE LET k == FirstMatch(date_str, date_formats, 1) IN
         IF k = 0 THEN NoneDate
         ELSE strftime(strptime(date_str, date_formats[k]), "%Y-%m-%d")

parse_date(date_str, include_time) ==
    IF Falsy(date_str) THEN NoneDate
    ELSE LET k == FirstMatch(date_str, date_formats, 1) IN
         IF k = 0 THEN NoneDate
         ELSE LET parsed_date == strptime(date_str, date_formats[k]) IN
              IF include_time /\ HasHMS(date_formats[k])
              THEN strftime(parsed_date, "%Y-%m-%dT%H:%M:%S")
              ELSE strftime(parsed_date, "%Y-%m-%d")

notion_formats == <<"%Y-%m-%dT%H:%M:%S", "%Y-%m-%d">>
zotero_formats == <<"%Y-%m-%dT%H:%M:%S%z", "%Y-%m-%dT%H:%M:%S", "%Y-%m-%d">>

\* the point on the UTC time line of an aware datetime, in hours
Instant(dt) == dt.day * 24 + dt.hour - dt.off

\* a > b on datetime objects; comparing an aware with a naive one raises
\* TypeError, which should_update_reference's except turns into True
DatetimeLater(a, b) ==
    IF a.aware # b.aware THEN TRUE
    ELSE IF a.aware THEN Instant(a) > Instant(b)
    ELSE a.day > b.day \/ (a.day = b.day /\ a.hour > b.hour)

should_update_reference_or_equal(notion_date_str, zotero_date_str) ==
    IF Falsy(notion_date_str) \/ Falsy(zotero_date_str) THEN TRUE
    ELSE LET kn == FirstMatch(notion_date_str, notion_formats, 1)
             kz == FirstMatch(zotero_date_str, zotero_formats, 1)
         IN  IF kn = 0 THEN TRUE
             ELSE IF kz = 0 THEN TRUE
             ELSE LET notion_date == strptime(notion_date_str, notion_formats[kn])
                      parsed == strptime(zotero_date_str, zotero_formats[kz])
                  IN  IF ContainsT(notion_date_str) /\ ContainsT(zotero_date_str)
                      THEN LET zotero_date ==
                                   IF ~notion_date.aware /\ parsed.aware
                                   THEN [parsed EXCEPT !.aware = FALSE, !.off = 0]
                                   ELSE parsed
                           IN  ~DatetimeLater(notion_date, zotero_date)
                      ELSE parsed.day >= notion_date.day


should_update_reference(notion_date_str, zotero_date_str) ==
    IF Falsy(notion_date_str) \/ Falsy(zotero_date_str) THEN TRUE
    ELSE LET kn == FirstMatch(notion_date_str, notion_formats, 1)
             kz == FirstMatch(zotero_date_str, zotero_formats, 1)
         IN  IF kn = 0 THEN TRUE
             ELSE IF kz = 0 THEN TRUE
             ELSE LET notion_date == strptime(notion_date_str, notion_formats[kn])
                      parsed == strptime(zotero_date_str, zotero_formats[kz])
                  IN  IF ContainsT(notion_date_str) /\ ContainsT(zotero_date_str)
                      THEN LET zotero_date ==
                                   IF ~notion_date.aware /\ parsed.aware
                                   THEN [parsed EXCEPT !.aware = FALSE, !.off = 0]
                                   ELSE parsed
                           IN  DatetimeLater(zotero_date, notion_date)
                      ELSE parsed.day > notion_date.day


(***************************************************************************)
(* Python values of the sync.                                               *)
(*   A reference (an item of the source listing) has one of the shapes      *)
(*     "None"      the item is null                                         *)
(*     "no_data"   an object without the key data                           *)
(*     "no_title"  data is an object without the key title                  *)
(*     "ok"        data.title is present                                    *)
(*   colls is data.collections: a list of identifiers (shape "list") or     *)
(*   null (shape "None"); dm is data.get("dateModified", "").               *)
(***************************************************************************)
Ref(sh, t, cs, d) == [shape |-> sh, title |-> t, colls |-> cs, dm |-> d]
IdList(ids) == [shape |-> "list", ids |-> ids]
NullList == [shape |-> "None", ids |-> <<>>]

\* what isinstance(x, dict) and `key in x` see of a value
PyShape(isd, ks) == [isdict |-> isd, keys |-> ks]
ShapeOfRef(r) ==
    PyShape(r.shape # "None", IF r.shape \in {"no_title", "ok"} THEN {"data"} ELSE {})
ShapeOfPageId == PyShape(FALSE, {})     \* a str, or the tuple add_reference_to_notion passes

\* a destination page; page identifiers are positive numbers
Page(p, t, cs, m) == [id |-> p, title |-> t, colls |-> cs, modified |-> m]

\* a function result: returned normally or raised
Unbound == [bound |-> FALSE, val |-> <<>>]
Bound(v) == [bound |-> TRUE, val |-> v]

\* decorators.py: validate_key
validate_key(reference, required_key) ==
    reference.isdict /\ required_key \in reference.keys

\* decorators.py: the wrapper of validate_reference_with_key.  Its parameter
\* `reference` is the first positional argument after self; TRUE when the
\* wrapped function is called, FALSE when the wrapper logs and returns None.
\* (The factory is called as validate_reference_with_key(param_position=...);
\* the factory of decorators.py has no such parameter, and this wrapper is the
\* only one the repository defines.)
validate_reference_with_key(first_positional) ==
    validate_key(first_positional, "data")

\* format_collection_names: len(None) raises TypeError
format_collection_names(collection_ids, colls) ==
    IF collection_ids.shape # "list"
    THEN [raised |-> TRUE, names |-> <<>>]
    ELSE IF Len(collection_ids.ids) > 0
    THEN [raised |-> FALSE,
          names |-> [k \in 1..Len(collection_ids.ids) |->
                        IF collection_ids.ids[k] \in DOMAIN colls
                        THEN colls[collection_ids.ids[k]] ELSE ""]]
    ELSE [raised |-> FALSE, names |-> <<>>]

(***************************************************************************)
(* The destination's answers.  Every request to the destination ends in one *)
(* of the outcomes                                                          *)
(*   "ok"            status 200 and the body the API documents              *)
(*   "non200"        an error status with a JSON error body                 *)
(*   "unparseable"   a body response.json() cannot parse (ValueError)       *)
(*   "neterror"      requests raises RequestException (timeout, no route)   *)
(*   "malformed200"  status 200 and a non-empty JSON body without a         *)
(*                   "results" list                                         *)
(***************************************************************************)
Outcomes == {"ok", "non200", "unparseable", "neterror", "malformed200"}
WriteOutcomes == {"ok", "non200", "unparseable", "neterror"}

\* the collection filters of the search payload: the non-empty names
collection_filters(collection_names) ==
    {collection_names[k] : k \in {j \in 1..Len(collection_names) : collection_names[j] # ""}}

\* the database query: Title equals title, and, when there are collection
\* filters, Collections contains at least one of them; in server order
QueryResults(db, title, filters) ==
    SelectSeq(db, LAMBDA r : r.title = title /\ (filters = {} \/ r.colls \cap filters # {}))

FindReturn(found, p, m, w) ==
    [raised |-> FALSE, found |-> found, page_id |-> p, modified |-> m, warned |-> w]
FindRaise == [raised |-> TRUE, found |-> FALSE, page_id |-> 0, modified |-> NoneDate, warned |-> FALSE]
NotFound == FindReturn(FALSE, 0, NoneDate, FALSE)

find_reference_in_notion_title_only(title, collection_names, db, outcome) ==
    LET results == QueryResults(db, title, {}) IN
    IF outcome = "ok" /\ results # <<>>
    THEN FindReturn(TRUE, results[1].id, results[1].modified, Len(results) > 1)
    ELSE IF outcome \in {"neterror", "malformed200"} THEN FindRaise ELSE NotFound

\* find_reference_in_notion: found = FALSE stands for (None, None)
find_reference_in_notion(title, collection_names, db, outcome) ==
    CASE outcome = "neterror"     -> FindRaise      \* requests.post raises
      [] outcome = "unparseable"  -> NotFound       \* except ValueError: return None, None
      [] outcome = "non200"       -> NotFound       \* status_code != 200
      [] outcome = "malformed200" -> FindRaise      \* `results` is unbound: UnboundLocalError
      [] outcome = "ok" ->
            LET results == QueryResults(db, title, collection_filters(collection_names)) IN
            IF results # <<>>
            THEN FindReturn(TRUE, results[1].id, results[1].modified, Len(results) > 1)
            ELSE NotFound


(***************************************************************************)
(* Requests to the destination and what they do there.                      *)
(***************************************************************************)
\* one HTTP request: kind is "query" (POST databases/<id>/query), "patch"
\* (PATCH pages/<page>) or "create" (POST pages); ref is the position of the
\* reference it was sent for; outcome is how the request ended; page is the
\* page a write addresses, or the page a query's answer puts first (0: none)
Req(k, i, p, t, ns, m, o) ==
    [kind |-> k, ref |-> i, page |-> p, title |-> t, names |-> ns,
     modified |-> m, outcome |-> o]

\* the destination after a request: a write takes effect when it ends "ok"
ApplyWrite(db, r) ==
    IF r.outcome # "ok" THEN db
    ELSE IF r.kind = "patch"
    THEN [k \in 1..Len(db) |->
            IF db[k].id = r.page
            THEN [db[k] EXCEPT !.colls = r.names,
                               !.modified = IF r.modified = NoneDate THEN @ ELSE r.modified]
            ELSE db[k]]
    ELSE IF r.kind = "create"
    THEN Append(db, Page(Len(db) + 1, r.title, r.names, r.modified))
    ELSE db

RECURSIVE ApplyWrites(_, _)
ApplyWrites(db, reqs) ==
    IF reqs = <<>> THEN db
    ELSE ApplyWrites(ApplyWrite(db, Head(reqs)), Tail(reqs))

Result(raised, reqs) == [raised |-> raised, sent |-> reqs]

update_reference_in_notion_retrying(page_id, reference, collection_names, i, outcome) ==
    LET r == Req("patch", i, page_id, reference.title,
                 collection_filters(collection_names),
                 parse_date(reference.dm, TRUE), outcome)
    IN  IF outcome = "ok" THEN Result(FALSE, <<r>>)
        ELSE Result(FALSE, <<r, [r EXCEPT !.outcome = "ok"]>>)

update_reference_in_notion_unvalidated(page_id, reference, collection_names, i, outcome) ==
    Result(outcome \in {"unparseable", "neterror"},
           <<Req("patch", i, page_id, reference.title,
                 collection_filters(collection_names),
                 parse_date(reference.dm, TRUE), outcome)>>)

\* update_reference_in_notion(page_id, reference, collection_names) as
\* decorated: the wrapper checks its first positional argument, page_id
update_reference_in_notion(page_id, reference, collection_names, i, outcome) ==
    IF ~validate_reference_with_key(ShapeOfPageId)
    THEN Result(FALSE, <<>>)                      \* logs "Validation error", returns None
    ELSE Result(outcome \in {"unparseable", "neterror"},
                <<Req("patch", i, page_id, reference.title,
                      collection_filters(collection_names),
                      parse_date(reference.dm, TRUE), outcome)>>)

add_reference_to_notion_create_only(reference, collection_names, db, i, o2, ow) ==
    Result(ow = "neterror",
           <<Req("create", i, 0, reference.title, collection_filters(collection_names),
                 parse_date(reference.dm, TRUE), ow)>>)

\* add_reference_to_notion(reference, collection_names) as decorated.
\* page_id holds the tuple find_reference_in_notion returned; a tuple of two
\* elements is true whatever it holds.
add_reference_to_notion(reference, collection_names, db, i, o2, ow) ==
    IF ~validate_reference_with_key(ShapeOfRef(reference))
    THEN Result(FALSE, <<>>)
    ELSE LET f == find_reference_in_notion(reference.title, collection_names, db, o2)
             q == Req("query", i, f.page_id, reference.title,
                      collection_filters(collection_names), NoneDate, o2)
             page_id == <<f.page_id, f.modified>>
         IN  IF f.raised THEN Result(TRUE, <<q>>)
             ELSE IF Len(page_id) > 0
             THEN LET u == update_reference_in_notion(0, reference, collection_names, i, ow)
                  IN  Result(u.raised, <<q>> \o u.sent)
             ELSE Result(ow = "neterror",
                         <<q, Req("create", i, 0, reference.title,
                                  collection_filters(collection_names),
                                  parse_date(reference.dm, TRUE), ow)>>)

Processed(crashed, reqs, lines) == [crashed |-> crashed, sent |-> reqs, log |-> lines]
Line(i, m) == [ref |-> i, msg |-> m]

\* the body both entry points run for a reference they process: resolve the
\* collection names, then the try block (locate, decide, dispatch)
ProcessReference(reference, title, i, colls, db, o1, o2, ow) ==
    IF ~colls.bound THEN Processed(TRUE, <<>>, <<>>)     \* UnboundLocalError
    ELSE LET fc == format_collection_names(reference.colls, colls.val) IN
    IF fc.raised THEN Processed(TRUE, <<>>, <<>>)        \* TypeError, outside the try
    ELSE LET collection_names == fc.names
             f == find_reference_in_notion(title, collection_names, db, o1)
             q == Req("query", i, f.page_id, title, collection_filters(collection_names),
                      NoneDate, o1)
         IN  IF f.raised THEN Processed(FALSE, <<q>>, <<Line(i, "failed")>>)
             ELSE IF f.found
             THEN IF should_update_reference(f.modified, reference.dm)
                  THEN LET u == update_reference_in_notion(f.page_id, reference,
                                                           collection_names, i, ow)
                       IN  Processed(FALSE, <<q>> \o u.sent,
                                     <<Line(i, IF u.raised THEN "failed" ELSE "updated")>>)
                  ELSE Processed(FALSE, <<q>>, <<Line(i, "uptodate")>>)
             ELSE LET a == add_reference_to_notion(reference, collection_names,
                                                   db, i, o2, ow)
                  IN  Processed(FALSE, <<q>> \o a.sent,
                                <<Line(i, IF a.raised THEN "failed" ELSE "added")>>)


(***************************************************************************)
(* The source: the item listing and the collection catalog.                 *)
(***************************************************************************)
FetchOutcomes == {"ok", "non200", "unparseable", "neterror"}

Fetched(raised, v) == [raised |-> raised, val |-> v]
EmptyDict == [x \in {} |-> ""]

\* fetch_zotero_reference: the list of all items, [] on an error status or an
\* unparseable body; a RequestException of requests.get propagates
fetch_zotero_reference(listing, outcome) ==
    CASE outcome = "neterror" -> Fetched(TRUE, <<>>)
      [] outcome = "ok"       -> Fetched(FALSE, listing)
      [] OTHER                -> Fetched(FALSE, <<>>)

\* fetch_collections: identifier -> name, {} on an error status or an
\* unparseable body; a RequestException of requests.get propagates
fetch_collections_swallowing(cat, outcome) ==
    IF outcome = "ok" THEN Fetched(FALSE, cat) ELSE Fetched(FALSE, EmptyDict)

fetch_collections(cat, outcome) ==
    CASE outcome = "neterror" -> Fetched(TRUE, EmptyDict)
      [] outcome = "ok"       -> Fetched(FALSE, cat)
      [] OTHER                -> Fetched(FALSE, EmptyDict)

MaxRefs == 2
MaxFaults == 1

Titles == {"X", "Y"}
Catalog == ("c1" :> "A") @@ ("c2" :> "B")

RefValues ==
    { Ref("no_title", "", IdList(<<>>), EmptyDate),
      Ref("ok", "X", IdList(<<"c1">>), DateStr("tz", 0, 10, 0)),
      Ref("ok", "X", IdList(<<"zz">>), EmptyDate),
      Ref("ok", "Y", NullList, DateStr("tz", 0, 10, 0)) }

SourceLists == UNION {[1..n -> RefValues] : n \in 1..MaxRefs}

Destinations ==
    { <<>>,
      <<Page(1, "X", {"A"}, DateStr("naive", 0, 10, 0))>>,
      <<Page(1, "X", {"A", "B"}, NoneDate),
        Page(2, "X", {"A"}, DateStr("date", 0, 0, 0))>> }

\* the ways three requests can end with at most MaxFaults of them failing
OutcomeTriples ==
    {t \in Outcomes \X Outcomes \X WriteOutcomes :
        Cardinality({k \in 1..3 : t[k] # "ok"}) <= MaxFaults}

NonOk(reqs) == Cardinality({k \in 1..Len(reqs) : reqs[k].outcome # "ok"})

NotFetched == [items |-> "none", colls |-> "none"]

PendingDecision == [done |-> FALSE, value |-> FALSE]
PendingFind ==
    [called |-> FALSE, outcome |-> "ok", raised |-> FALSE, found |-> FALSE,
     page_id |-> 0, modified |-> NoneDate, warned |-> FALSE]

DatesIdle ==
    /\ notion_modified_date = NoneDate
    /\ zotero_modified_date = NoneDate
    /\ written_from = NoneDate
    /\ decision = PendingDecision

FindIdle ==
    /\ f_title = ""
    /\ f_names = <<>>
    /\ f_result = PendingFind

PendingCall == [done |-> FALSE, raised |-> FALSE, val |-> <<>>]

MapIdle ==
    /\ m_fn = "none"
    /\ m_arg = <<>>
    /\ m_ret = PendingCall

SyncIdle ==
    /\ source = <<>>
    /\ catalog = Catalog
    /\ mode = "idle"
    /\ pc = "idle"
    /\ prev = "other"
    /\ search_title = ""
    /\ references = Unbound
    /\ collections = Unbound
    /\ idx = 1
    /\ sent = <<>>
    /\ log = <<>>
    /\ faults = 0
    /\ fetched = NotFetched

(***************************************************************************)
(* Spec: sync_all_references_to_notion and sync_reference_to_notion.        *)
(***************************************************************************)
Init ==
    /\ DatesIdle
    /\ FindIdle
    /\ MapIdle
    /\ source \in SourceLists
    /\ catalog = Catalog
    /\ notion \in Destinations
    /\ mode = "idle"
    /\ pc = "idle"
    /\ prev = "other"
    /\ search_title = ""
    /\ references = Unbound
    /\ collections = Unbound
    /\ idx = 1
    /\ sent = <<>>
    /\ log = <<>>
    /\ faults = 0
    /\ fetched = NotFetched

\* how the call that just ended went, as the next call's prev
Ended ==
    IF mode = "full" /\ pc = "done" /\ faults = 0 THEN "full_clean" ELSE "other"

Enter(m, t) ==
    /\ pc \in {"idle", "done", "crashed"}
    /\ mode' = m
    /\ search_title' = t
    /\ prev' = Ended
    /\ pc' = "fetch"
    /\ references' = Unbound
    /\ collections' = Unbound
    /\ idx' = 1
    /\ sent' = <<>>
    /\ log' = <<>>
    /\ faults' = 0
    /\ fetched' = NotFetched
    /\ UNCHANGED <<source, catalog, notion, dateVars, findVars, mapVars>>

\* sync_all_references_to_notion() is called
StartFull == Enter("full", "")

\* sync_reference_to_notion() is called and input() returns a title
StartSingle == \E t \in Titles : Enter("single", t)

\* the try block of both entry points: fetch_zotero_reference(), then
\* fetch_collections(); `except RequestException` logs and goes on
Fetch ==
    /\ pc = "fetch"
    /\ \E oi \in FetchOutcomes, oc \in FetchOutcomes :
         LET r == fetch_zotero_reference(source, oi)
             c == fetch_collections(catalog, oc)
             n == (IF oi = "ok" THEN 0 ELSE 1)
                  + (IF r.raised \/ oc = "ok" THEN 0 ELSE 1)
         IN  /\ n <= MaxFaults
             /\ r.raised => oc = "ok"
             /\ references' = (IF r.raised THEN Unbound ELSE Bound(r.val))
             /\ collections' = (IF r.raised \/ c.raised THEN Unbound ELSE Bound(c.val))
             /\ faults' = n
             /\ fetched' = [items |-> oi, colls |-> IF r.raised THEN "skipped" ELSE oc]
    /\ pc' = "loop"
    /\ UNCHANGED <<source, catalog, notion, mode, prev, search_title, idx, sent, log,
                   dateVars, findVars, mapVars>>

\* `for reference in references` with references never assigned
LoopUnbound ==
    /\ pc = "loop"
    /\ ~references.bound
    /\ pc' = "crashed"
    /\ UNCHANGED <<source, catalog, notion, mode, prev, search_title, references,
                   collections, idx, sent, log, faults, fetched, dateVars, findVars, mapVars>>

\* the loop is exhausted; the single-title entry point warns that no
\* reference matched
LoopEnd ==
    /\ pc = "loop"
    /\ references.bound
    /\ idx > Len(references.val)
    /\ pc' = "done"
    /\ log' = (IF mode = "single" THEN Append(log, Line(0, "no_match")) ELSE log)
    /\ UNCHANGED <<source, catalog, notion, mode, prev, search_title, references,
                   collections, idx, sent, faults, fetched, dateVars, findVars, mapVars>>

\* what one pass of the loop of sync_all_references_to_notion does
FullPass(reference, i, colls, db, o1, o2, ow) ==
    IF reference.shape # "ok"
    THEN [skip |-> TRUE, p |-> Processed(FALSE, <<>>, <<>>)]
    ELSE [skip |-> FALSE,
          p |-> ProcessReference(reference, reference.title, i, colls, db, o1, o2, ow)]

\* what one pass of the loop of sync_reference_to_notion does:
\* reference["data"]["title"] is read for the debug line before any test
SinglePass_no_return(reference, title, i, colls, db, o1, o2, ow) ==
    IF reference.shape # "ok"
    THEN [crashed |-> TRUE, matched |-> FALSE, p |-> Processed(FALSE, <<>>, <<>>)]
    ELSE IF reference.title # title
    THEN [crashed |-> FALSE, matched |-> FALSE, p |-> Processed(FALSE, <<>>, <<>>)]
    ELSE [crashed |-> FALSE, matched |-> FALSE,
          p |-> ProcessReference(reference, title, i, colls, db, o1, o2, ow)]

SinglePass(reference, title, i, colls, db, o1, o2, ow) ==
    IF reference.shape # "ok"
    THEN [crashed |-> TRUE, matched |-> FALSE, p |-> Processed(FALSE, <<>>, <<>>)]
    ELSE IF reference.title # title
    THEN [crashed |-> FALSE, matched |-> FALSE, p |-> Processed(FALSE, <<>>, <<>>)]
    ELSE [crashed |-> FALSE, matched |-> TRUE,
          p |-> ProcessReference(reference, title, i, colls, db, o1, o2, ow)]

\* one pass of the loop of sync_all_references_to_notion
FullIteration ==
    /\ pc = "loop"
    /\ mode = "full"
    /\ references.bound
    /\ idx <= Len(references.val)
    /\ \E t \in OutcomeTriples :
         LET r == FullPass(references.val[idx], idx, collections, notion,
                           t[1], t[2], t[3]) IN
         /\ faults + NonOk(r.p.sent) <= MaxFaults
         /\ faults' = faults + NonOk(r.p.sent)
         /\ sent' = sent \o r.p.sent
         /\ log' = log \o r.p.log
         /\ notion' = ApplyWrites(notion, r.p.sent)
         /\ pc' = (IF r.p.crashed THEN "crashed" ELSE "loop")
         /\ idx' = (IF r.p.crashed THEN idx ELSE idx + 1)
    /\ UNCHANGED <<source, catalog, mode, prev, search_title, references, collections,
                   fetched, dateVars, findVars, mapVars>>

\* one pass of the loop of sync_reference_to_notion
SingleIteration ==
    /\ pc = "loop"
    /\ mode = "single"
    /\ references.bound
    /\ idx <= Len(references.val)
    /\ \E t \in OutcomeTriples :
         LET r == SinglePass(references.val[idx], search_title, idx, collections,
                             notion, t[1], t[2], t[3]) IN
         /\ faults + NonOk(r.p.sent) <= MaxFaults
         /\ faults' = faults + NonOk(r.p.sent)
         /\ sent' = sent \o r.p.sent
         /\ log' = log \o r.p.log
         /\ notion' = ApplyWrites(notion, r.p.sent)
         /\ pc' = (IF r.crashed \/ r.p.crashed THEN "crashed"
                   ELSE IF r.matched THEN "done" ELSE "loop")
         /\ idx' = (IF r.crashed \/ r.p.crashed THEN idx ELSE idx + 1)
    /\ UNCHANGED <<source, catalog, mode, prev, search_title, references, collections,
                   fetched, dateVars, findVars, mapVars>>

Next ==
    \/ StartFull
    \/ StartSingle
    \/ Fetch
    \/ LoopUnbound
    \/ LoopEnd
    \/ FullIteration
    \/ SingleIteration

Spec == Init /\ [][Next]_vars


(***************************************************************************)
(* SpecDates: the Modified Date of one destination record against the       *)
(* dateModified of its source reference.                                    *)
(***************************************************************************)
InitDates ==
    /\ notion_modified_date \in DateStrings
    /\ zotero_modified_date \in DateStrings
    /\ written_from = NoneDate
    /\ decision = PendingDecision
    /\ FindIdle
    /\ SyncIdle
    /\ MapIdle
    /\ notion = <<>>

\* should_update_reference(notion_modified_date, zotero_modified_date)
EvaluateStaleness ==
    /\ ~decision.done
    /\ decision' = [done |-> TRUE,
                    value |-> should_update_reference(notion_modified_date,
                                                      zotero_modified_date)]
    /\ UNCHANGED <<notion_modified_date, zotero_modified_date, written_from,
                   findVars, syncVars, notion, mapVars>>

\* the payload's Modified Date: parse_date(dateModified, include_time=True),
\* put into the payload when it is not None, and stored by the destination
RecordModified ==
    /\ parse_date(zotero_modified_date, TRUE) # NoneDate
    /\ notion_modified_date' = parse_date(zotero_modified_date, TRUE)
    /\ written_from' = zotero_modified_date
    /\ decision' = PendingDecision
    /\ UNCHANGED <<zotero_modified_date, findVars, syncVars, notion, mapVars>>

\* the reference is edited in the source after its record was written
SourceModified ==
    /\ written_from # NoneDate
    /\ zotero_modified_date = written_from
    /\ \E d \in DateStrings \ {zotero_modified_date} : zotero_modified_date' = d
    /\ decision' = PendingDecision
    /\ UNCHANGED <<notion_modified_date, written_from, findVars, syncVars, notion, mapVars>>

NextDates == EvaluateStaleness \/ RecordModified \/ SourceModified

SpecDates == InitDates /\ [][NextDates]_vars

(***************************************************************************)
(* SpecFind: one call of find_reference_in_notion against a database.       *)
(***************************************************************************)
MaxPages == 2

CollectionNames == {"A", "B"}

\* the databases of at most MaxPages pages; a page's identifier is its position
Databases ==
    UNION {{db \in [1..n -> [id : 1..n, title : Titles, colls : SUBSET CollectionNames,
                             modified : {NoneDate, DateStr("naive", 0, 10, 0)}]] :
               \A k \in 1..n : db[k].id = k} : n \in 0..MaxPages}

\* results of format_collection_names: "" stands for an unknown identifier
NameLists == {<<>>, <<"">>, <<"A">>, <<"B">>, <<"A", "B">>, <<"", "B">>}

InitFind ==
    /\ notion \in Databases
    /\ f_title \in Titles
    /\ f_names \in NameLists
    /\ f_result = PendingFind
    /\ DatesIdle
    /\ SyncIdle
    /\ MapIdle

\* find_reference_in_notion(f_title, f_names)
Locate ==
    /\ ~f_result.called
    /\ \E o \in Outcomes :
         LET f == find_reference_in_notion(f_title, f_names, notion, o) IN
         f_result' = [called |-> TRUE, outcome |-> o, raised |-> f.raised,
                      found |-> f.found, page_id |-> f.page_id,
                      modified |-> f.modified, warned |-> f.warned]
    /\ UNCHANGED <<f_title, f_names, dateVars, syncVars, notion, mapVars>>

NextFind == Locate

SpecFind == InitFind /\ [][NextFind]_vars


(***************************************************************************)
(* The field mapper: format_authors, process_abstract and the payloads of   *)
(* update_reference_in_notion and add_reference_to_notion.                  *)
(*   A text (a Python str) is the sequence of its pieces; "" is <<>>.       *)
(*   A dict is a function from its keys; a list item that may be anything   *)
(*   is [isdict, fields], with fields the dict when it is one.              *)
(***************************************************************************)
PyNone == [none |-> TRUE, text |-> <<>>]
PyStr(t) == [none |-> FALSE, text |-> t]

NoFields == [k \in {} |-> <<>>]
Item(isd, fs) == [isdict |-> isd, fields |-> fs]
PyList(items) == [islist |-> TRUE, items |-> items]
NotAList == [islist |-> FALSE, items |-> <<>>]

\* d.get(k, default)
Get(d, k, default) == IF k \in DOMAIN d THEN d[k] ELSE default

\* sep.join(texts)
RECURSIVE Join(_, _)
Join(texts, sep) ==
    IF texts = <<>> THEN <<>>
    ELSE IF Len(texts) = 1 THEN texts[1]
    ELSE texts[1] \o sep \o Join(Tail(texts), sep)

\* decorators.py: validate_creators_list
validate_creators_list(creators) ==
    IF ~creators.islist THEN FALSE
    ELSE \A k \in 1..Len(creators.items) :
            LET creator == creators.items[k] IN
            ~(~creator.isdict
              \/ ("name" \notin DOMAIN creator.fields
                  /\ "lastName" \notin DOMAIN creator.fields
                  /\ "firstName" \notin DOMAIN creator.fields))

\* the display name format_authors appends for one creator
author_name_first(creator) ==
    Get(creator, "firstName", <<>>) \o <<" ">> \o Get(creator, "lastName", <<>>)

author_name(creator) ==
    IF "name" \in DOMAIN creator /\ creator["name"] # <<>>
    THEN creator["name"]
    ELSE Get(creator, "firstName", <<>>) \o <<" ">> \o Get(creator, "lastName", <<>>)

\* the function format_authors wraps
format_authors_func(creators) ==
    Join([k \in 1..Len(creators.items) |-> author_name(creators.items[k].fields)],
         <<", ">>)

\* format_authors as decorated with validate_creators(): None when the list
\* does not validate
format_authors(creators) ==
    IF ~validate_creators_list(creators) THEN PyNone
    ELSE PyStr(format_authors_func(creators))

AbstractLimit == 2000
TruncatedLength == 1997

\* the text "..." of process_abstract; the characters of an abstract are
\* numbers above 0
Ellipsis == <<0, 0, 0>>

\* data.abstractNote: absent, a str, or a value that is no str
NoAbstract == [present |-> FALSE, isstr |-> FALSE, text |-> <<>>]
AbstractStr(t) == [present |-> TRUE, isstr |-> TRUE, text |-> t]
AbstractOther == [present |-> TRUE, isstr |-> FALSE, text |-> <<>>]

process_abstract_suffix(abstractNote) ==
    LET abstract == IF abstractNote.present THEN abstractNote ELSE AbstractStr(<<>>) IN
    IF abstract.isstr /\ abstract.text # <<>>
    THEN IF Len(abstract.text) > AbstractLimit
         THEN SubSeq(abstract.text, Len(abstract.text) - TruncatedLength + 1,
                     Len(abstract.text)) \o Ellipsis
         ELSE abstract.text
    ELSE <<>>

\* process_abstract(reference), with abstractNote the reference's
\* data.abstractNote
process_abstract(abstractNote) ==
    LET abstract == IF abstractNote.present THEN abstractNote ELSE AbstractStr(<<>>) IN
    IF abstract.isstr /\ abstract.text # <<>>
    THEN IF Len(abstract.text) > AbstractLimit
         THEN SubSeq(abstract.text, 1, TruncatedLength) \o Ellipsis
         ELSE abstract.text
    ELSE <<>>

\* the loop of fetch_collections over the entries of a 200 response.  An
\* entry is {key, data: {name}} (shape "ok") or lacks part of it:
\*   "not_dict"  the entry is no object        "no_key"   no key
\*   "no_data"   no data                       "data_not_dict"  data is no object
\*   "no_name"   data has no name
\* The three debug lines read collection["key"], collection["data"] and
\* collection["data"]["name"] before the entry's shape is tested.
Entry(sh, k, n) == [shape |-> sh, key |-> k, name |-> n]

RECURSIVE fetch_collections_entries(_, _)
fetch_collections_entries(response_data, acc) ==
    IF response_data = <<>> THEN Fetched(FALSE, acc)
    ELSE LET collection == Head(response_data) IN
         IF collection.shape # "ok"
         THEN Fetched(TRUE, acc)                 \* KeyError or TypeError
         ELSE fetch_collections_entries(
                  Tail(response_data),
                  [k \in DOMAIN acc \cup {collection.key} |->
                      IF k = collection.key THEN collection.name ELSE acc[k]])

(***************************************************************************)
(* The payloads.  A reference's data holds                                  *)
(*   title           a text                                                 *)
(*   accessDate, date, dateModified   date strings ("" when absent)         *)
(*   creators, tags  lists of items                                         *)
(*   abstractNote    see process_abstract                                   *)
(*   scalars         the keys among url, DOI, publisher, extra, itemType    *)
(*                   that are present, with their texts                     *)
(* A payload is the function from the names of its properties to the value  *)
(* each carries.                                                            *)
(***************************************************************************)
NoProperties == [k \in {} |-> <<>>]

collections_multi_select_all(collection_names) == collection_names

\* [{"name": n} for n in collection_names if n]
collections_multi_select(collection_names) ==
    SelectSeq(collection_names, LAMBDA n : n # "")

\* [{"name": tag["tag"]} for tag in tags if isinstance(tag, dict) and "tag" in tag]
tags_multi_select(tags) ==
    LET kept == SelectSeq(tags, LAMBDA tag : tag.isdict /\ "tag" \in DOMAIN tag.fields)
    IN  [k \in 1..Len(kept) |-> kept[k].fields["tag"]]

url_or_empty(scalars) == PyStr(Get(scalars, "url", <<>>))

\* reference["data"].get("url") or None
url_or_none(scalars) ==
    IF "url" \in DOMAIN scalars /\ scalars["url"] # <<>>
    THEN PyStr(scalars["url"]) ELSE PyNone

\* the properties both payloads set unconditionally
common_properties(data, collection_names) ==
    ("Collections" :> collections_multi_select(collection_names))
    @@ ("Authors" :> format_authors(data.creators))
    @@ ("Source URL" :> url_or_none(data.scalars))
    @@ ("Tags" :> tags_multi_select(data.tags))
    @@ ("Item Type" :> PyStr(Get(data.scalars, "itemType", <<>>)))
    @@ ("Publisher" :> PyStr(Get(data.scalars, "publisher", <<>>)))
    @@ ("Extra" :> PyStr(Get(data.scalars, "extra", <<>>)))
    @@ ("DOI" :> PyStr(Get(data.scalars, "DOI", <<>>)))
    @@ ("Abstract" :> PyStr(process_abstract(data.abstractNote)))

date_properties_always(data) ==
    ("Date Accessed" :> parse_date(data.accessDate, FALSE))
    @@ ("Publication Date" :> parse_date(data.date, FALSE))
    @@ ("Modified Date" :> parse_date(data.dateModified, TRUE))

\* the date properties, each added when its normalised value is true
date_properties(data) ==
    LET access_date == parse_date(data.accessDate, FALSE)
        publication_date == parse_date(data.date, FALSE)
        modified_date == parse_date(data.dateModified, TRUE)
    IN  (IF ~Falsy(access_date) THEN "Date Accessed" :> access_date ELSE NoProperties)
        @@ (IF ~Falsy(publication_date) THEN "Publication Date" :> publication_date
            ELSE NoProperties)
        @@ (IF ~Falsy(modified_date) THEN "Modified Date" :> modified_date
            ELSE NoProperties)

update_payload_with_title(data, collection_names) ==
    ("Title" :> data.title)
    @@ common_properties(data, collection_names) @@ date_properties(data)

create_payload_without_defaults(data, collection_names) ==
    ("Title" :> data.title)
    @@ common_properties(data, collection_names)
    @@ date_properties(data)

\* data["properties"] of update_reference_in_notion
update_payload(data, collection_names) ==
    common_properties(data, collection_names) @@ date_properties(data)

\* data["properties"] of add_reference_to_notion
create_payload(data, collection_names) ==
    ("Title" :> data.title)
    @@ common_properties(data, collection_names)
    @@ ("Status" :> "Not started")
    @@ ("Category" :> "Academic")
    @@ date_properties(data)

(***************************************************************************)
(* SpecMap: one call of a helper of the field mapper, or one payload built  *)
(* by the body of update_reference_in_notion or add_reference_to_notion     *)
(* for a reference whose collection names the caller resolved.              *)
(***************************************************************************)
MaxCreators == 2
MaxEntries == 2
MaxIds == 2

CreatorValues ==
    { Item(TRUE, "name" :> <<"Acme Corp">>),
      Item(TRUE, ("firstName" :> <<"Jane">>) @@ ("lastName" :> <<"Doe">>)),
      Item(TRUE, "lastName" :> <<"Doe">>),
      Item(TRUE, ("name" :> <<>>) @@ ("firstName" :> <<"Jane">>)),
      Item(TRUE, "creatorType" :> <<"author">>),
      Item(FALSE, NoFields) }

CreatorLists ==
    {NotAList} \cup {PyList(l) : l \in UNION {[1..n -> CreatorValues] : n \in 0..MaxCreators}}

TagLists ==
    { <<>>,
      <<Item(TRUE, "tag" :> <<"t1">>), Item(TRUE, "type" :> <<"1">>),
        Item(FALSE, NoFields), Item(TRUE, "tag" :> <<"t2">>)>> }

\* an abstract of n characters, no two neighbours alike
Abstract(n) == [k \in 1..n |-> (k % 7) + 1]

AbstractValues ==
    {NoAbstract, AbstractOther}
    \cup {AbstractStr(Abstract(n)) :
            n \in {0, 1, TruncatedLength, AbstractLimit - 1, AbstractLimit,
                   AbstractLimit + 1, AbstractLimit + 500}}

Identifiers == {"c1", "c2", "zz"}

IdLists ==
    {NullList} \cup {IdList(l) : l \in UNION {[1..n -> Identifiers] : n \in 0..MaxIds}}

EntryValues ==
    { Entry("ok", "c1", "A"), Entry("ok", "c2", "B"), Entry("ok", "c1", "B"),
      Entry("not_dict", "", ""), Entry("no_key", "", "A"), Entry("no_data", "c1", ""),
      Entry("data_not_dict", "c1", ""), Entry("no_name", "c2", "") }

EntryLists == UNION {[1..n -> EntryValues] : n \in 1..MaxEntries}

ScalarKeys == {"DOI", "publisher", "extra", "itemType"}

\* the scalar fields of a reference: all present, or one or all of them absent
ScalarCases ==
    LET all == [k \in ScalarKeys |-> <<k>>] IN
    {all, NoFields} \cup {[k \in ScalarKeys \ {a} |-> <<k>>] : a \in ScalarKeys}

WithUrl(scalars, u) ==
    IF u = "absent" THEN scalars
    ELSE [k \in DOMAIN scalars \cup {"url"} |->
            IF k = "url" THEN (IF u = "empty" THEN <<>> ELSE <<"https://x">>)
            ELSE scalars[k]]

PayloadData ==
    { [title |-> <<"X">>, accessDate |-> ad, date |-> d, dateModified |-> dm,
       creators |-> cr, tags |-> tg, abstractNote |-> ab, scalars |-> WithUrl(sc, u)] :
        ad \in {EmptyDate, DateStr("tz", 0, 10, 0)},
        d \in {EmptyDate, DateStr("ym", 0, 0, 0), DateStr("junk", 0, 0, 0)},
        dm \in {EmptyDate, DateStr("tz", 0, 10, 0), DateStr("junk", 0, 0, 0)},
        cr \in { PyList(<<>>),
                 PyList(<<Item(TRUE, "name" :> <<"Acme Corp">>),
                          Item(TRUE, ("firstName" :> <<"Jane">>) @@ ("lastName" :> <<"Doe">>))>>),
                 PyList(<<Item(TRUE, ("firstName" :> <<"Jane">>) @@ ("lastName" :> <<"Doe">>)),
                          Item(FALSE, NoFields)>>) },
        tg \in TagLists,
        ab \in {NoAbstract, AbstractStr(Abstract(3))},
        sc \in ScalarCases,
        u \in {"absent", "empty", "text"} }

PayloadIds == {<<>>, <<"c1", "zz">>}

InitMap ==
    /\ \/ m_fn = "parse_date"
          /\ m_arg \in [date_str : DateStrings, include_time : BOOLEAN]
       \/ m_fn = "format_authors" /\ m_arg \in CreatorLists
       \/ m_fn = "process_abstract" /\ m_arg \in AbstractValues
       \/ m_fn = "format_collection_names"
          /\ m_arg \in [collection_ids : IdLists, collections : {Catalog, EmptyDict}]
       \/ m_fn = "fetch_collections" /\ m_arg \in EntryLists
       \/ m_fn \in {"update_reference_in_notion", "add_reference_to_notion"}
          /\ m_arg \in [data : PayloadData, ids : PayloadIds]
    /\ m_ret = PendingCall
    /\ DatesIdle
    /\ FindIdle
    /\ SyncIdle
    /\ notion = <<>>

Returned(v) == [done |-> TRUE, raised |-> FALSE, val |-> v]
Raised == [done |-> TRUE, raised |-> TRUE, val |-> <<>>]

Call(fn, ret) ==
    /\ m_fn = fn
    /\ ~m_ret.done
    /\ m_ret' = ret
    /\ UNCHANGED <<m_fn, m_arg, dateVars, findVars, syncVars, notion>>

CallParseDate ==
    Call("parse_date", Returned(parse_date(m_arg.date_str, m_arg.include_time)))

CallFormatAuthors ==
    Call("format_authors", Returned(format_authors(m_arg)))

CallProcessAbstract ==
    Call("process_abstract", Returned(process_abstract(m_arg)))

CallFormatCollectionNames ==
    Call("format_collection_names",
         LET r == format_collection_names(m_arg.collection_ids, m_arg.collections)
         IN  IF r.raised THEN Raised ELSE Returned(r.names))

\* fetch_collections() answered with status 200 and the entries m_arg
CallFetchCollections ==
    Call("fetch_collections",
         LET r == fetch_collections_entries(m_arg, EmptyDict)
         IN  IF r.raised THEN Raised ELSE Returned(r.val))

\* the caller resolves the reference's collection names, the locator builds
\* its filters from them, and the method's body builds the payload
Built(properties, collection_names) ==
    Returned([names |-> collection_names,
              filters |-> collection_filters(collection_names),
              properties |-> properties])

BuildUpdatePayload ==
    Call("update_reference_in_notion",
         LET collection_names == format_collection_names(IdList(m_arg.ids), Catalog).names
         IN  Built(update_payload(m_arg.data, collection_names), collection_names))

BuildCreatePayload ==
    Call("add_reference_to_notion",
         LET collection_names == format_collection_names(IdList(m_arg.ids), Catalog).names
         IN  Built(create_payload(m_arg.data, collection_names), collection_names))

NextMap ==
    \/ CallParseDate
    \/ CallFormatAuthors
    \/ CallProcessAbstract
    \/ CallFormatCollectionNames
    \/ CallFetchCollections
    \/ BuildUpdatePayload
    \/ BuildCreatePayload

SpecMap == InitMap /\ [][NextMap]_vars

(***************************************************************************)
(* SpecFetch: the pagination loop of fetch_zotero_reference, one request a  *)
(* step.  The server holds pages 1..n; the loop starts at page 1 (base_url). *)
(* A page answers with a status, its items, and a Link header: absent, or a *)
(* list of links [rel, url] with url the page the link points to.           *)
(*   status "ok"           200 and a JSON list                              *)
(*          "non200"       another status                                   *)
(*          "unparseable"  200 and a body response.json() cannot parse      *)
(*          "neterror"     requests.get raises RequestException             *)
(***************************************************************************)
MaxChain == 3

\* the loop gives up being followed after this many requests (a chain of
\* links that comes back to a page never ends)
MaxRequests == MaxChain + 2

Link(rel, url) == [rel |-> rel, url |-> url]
NoLinkHeader == [header |-> FALSE, links |-> <<>>]
LinkHeader(links) == [header |-> TRUE, links |-> links]

\* the items of page k
ItemsOfPage(k) == <<10 * k, 10 * k + 1>>

LinkValues(n) ==
    {NoLinkHeader, LinkHeader(<<Link("last", n)>>)}
    \cup {LinkHeader(<<Link("next", j), Link("last", n)>>) : j \in 1..n}

\* the servers of at most MaxChain pages, at most one of which fails
Servers ==
    UNION {{srv \in [1..n -> [status : FetchOutcomes, items : {<<>>},
                              link : LinkValues(n)]] :
                Cardinality({k \in 1..n : srv[k].status # "ok"}) <= 1} : n \in 1..MaxChain}

WithItems(srv) == [k \in DOMAIN srv |-> [srv[k] EXCEPT !.items = ItemsOfPage(k)]]

next_link_any(link) ==
    IF ~link.header THEN 0
    ELSE IF link.links = <<>> THEN 0 ELSE link.links[1].url

\* the next_url the loop takes from a response's headers: the url of the
\* first link holding rel="next, None (0) without one or without the header
next_link(link) ==
    IF ~link.header THEN 0
    ELSE LET nexts == SelectSeq(link.links, LAMBDA l : l.rel = "next")
         IN  IF nexts = <<>> THEN 0 ELSE nexts[1].url

\* the locals of fetch_zotero_reference and what it returned
FetchLocals(next_url, all_items, requested) ==
    [next_url |-> next_url, all_items |-> all_items, requested |-> requested,
     returned |-> <<>>]

InitFetch ==
    /\ m_fn = "fetch_zotero_reference"
    /\ \E srv \in Servers : m_arg = WithItems(srv)
    /\ m_ret = [done |-> FALSE, raised |-> FALSE, val |-> FetchLocals(1, <<>>, <<>>)]
    /\ DatesIdle
    /\ FindIdle
    /\ SyncIdle
    /\ notion = <<>>

\* one pass of `while next_url`
FetchPage ==
    /\ m_fn = "fetch_zotero_reference"
    /\ ~m_ret.done
    /\ Len(m_ret.val.requested) < MaxRequests
    /\ LET l == m_ret.val
           response == m_arg[l.next_url]
           requested == Append(l.requested, l.next_url)
           all_items == l.all_items \o response.items
           next_url == next_link(response.link)
       IN  m_ret' =
             CASE response.status = "neterror" ->
                    [done |-> TRUE, raised |-> TRUE,
                     val |-> [l EXCEPT !.requested = requested]]
               [] response.status \in {"non200", "unparseable"} ->
                    [done |-> TRUE, raised |-> FALSE,
                     val |-> [l EXCEPT !.requested = requested, !.returned = <<>>]]
               [] OTHER ->
                    [done |-> next_url = 0, raised |-> FALSE,
                     val |-> [next_url |-> next_url, all_items |-> all_items,
                              requested |-> requested,
                              returned |-> IF next_url = 0 THEN all_items ELSE <<>>]]
    /\ UNCHANGED <<m_fn, m_arg, dateVars, findVars, syncVars, notion>>

NextFetch == FetchPage

SpecFetch == InitFetch /\ [][NextFetch]_vars /\ WF_vars(FetchPage)

(***************************************************************************)
(* Properties.                                                              *)
(***************************************************************************)
RequestsFor(i, k) ==
    Cardinality({n \in 1..Len(sent) : sent[n].ref = i /\ sent[n].kind = k})

Writes(reqs) == {n \in 1..Len(reqs) : reqs[n].kind \in {"create", "patch"}}

\* the first request the run sent for reference i is a locate query that was
\* answered with no record
LocatedAbsent(i) ==
    /\ \E n \in 1..Len(sent) : sent[n].ref = i
    /\ LET n == CHOOSE m \in 1..Len(sent) :
                    sent[m].ref = i /\ \A j \in 1..(m - 1) : sent[j].ref # i
       IN  sent[n].kind = "query" /\ sent[n].outcome = "ok" /\ sent[n].page = 0

\* C1: in a full sync without failures, a titled reference whose locate
\* query is answered with no record gets exactly one page-creation request
\* and no page-update request.
C1_AbsentThenCreate ==
    (mode = "full" /\ references.bound /\ faults = 0) =>
        \A i \in 1..Len(references.val) :
            (i < idx /\ references.val[i].shape = "ok" /\ LocatedAbsent(i))
                => (RequestsFor(i, "create") = 1 /\ RequestsFor(i, "patch") = 0)

\* C2: a full sync that follows a full sync which ended without a failure,
\* and itself ends without one, has sent no create and no update request
\* and has logged every titled reference as already up to date.
C2_SecondRunWritesNothing ==
    (mode = "full" /\ prev = "full_clean" /\ pc = "done" /\ faults = 0) =>
        /\ Writes(sent) = {}
        /\ \A i \in 1..Len(references.val) :
               references.val[i].shape = "ok" =>
                   \E n \in 1..Len(log) : log[n] = Line(i, "uptodate")

\* a timestamp with a UTC offset, as a point on the UTC time line (hours)
InstantOf(s) == s.day * 24 + s.hour - s.off

\* C3: when the destination's Modified Date was written from the source
\* timestamp w and the source's timestamp is now z, both with a UTC offset,
\* and the instant of z is strictly later than the instant of w, the
\* staleness evaluator answers true.
C3_NoMissedUpdate ==
    (/\ decision.done
     /\ written_from.kind = "tz"
     /\ zotero_modified_date.kind = "tz"
     /\ InstantOf(zotero_modified_date) > InstantOf(written_from))
        => decision.value

\* the strings each side of the evaluator reads: the destination side a
\* timestamp without offset or a date, the source side also a timestamp
\* with offset
ReadableDestination(s) == s.kind \in {"naive", "date"}
ReadableSource(s) == s.kind \in {"tz", "naive", "date"}
HasTimeOfDay(s) == s.kind \in {"tz", "naive"}
WrittenLater(z, n) == z.day > n.day \/ (z.day = n.day /\ z.hour > n.hour)

ExpectedUpdate(n, z) ==
    IF Falsy(n) \/ Falsy(z) \/ ~ReadableDestination(n) \/ ~ReadableSource(z)
    THEN TRUE
    ELSE IF HasTimeOfDay(n) /\ HasTimeOfDay(z) THEN WrittenLater(z, n)
    ELSE z.day > n.day

\* C4: the evaluator's answer follows the table: true when either string is
\* absent or not readable; with a time of day on both sides, true exactly
\* when the source's written date and time are strictly later than the
\* destination's; otherwise true exactly when the source's date is strictly
\* later.  The three examples of the claim are part of the statement.
C4_DecisionTable ==
    /\ decision.done =>
           decision.value = ExpectedUpdate(notion_modified_date, zotero_modified_date)
    /\ should_update_reference(DateStr("naive", 0, 10, 0), DateStr("naive", 1, 9, 0))
    /\ ~should_update_reference(DateStr("date", 1, 0, 0), DateStr("date", 0, 0, 0))
    /\ should_update_reference(NoneDate, DateStr("date", 0, 0, 0))

\* C4 witness: both strings carry a time of day on the same date and the
\* evaluator answered true
C4_Witness ==
    /\ decision.done
    /\ decision.value
    /\ notion_modified_date.kind = "naive"
    /\ zotero_modified_date.kind = "tz"
    /\ zotero_modified_date.day = notion_modified_date.day

\* C5: a full sync that fetched the listing and the catalog never ends on
\* an exception: no reference's failure escapes the loop.
C5_ItemFailureDoesNotAbort ==
    (mode = "full" /\ references.bound /\ collections.bound) => pc # "crashed"

FetchFailures == {"non200", "unparseable", "neterror"}

\* C6 as claimed: a run one of whose source fetches failed sends nothing to
\* the destination.
C6_FetchFailureAborts ==
    (fetched.items \in FetchFailures \/ fetched.colls \in FetchFailures)
        => sent = <<>>

\* C6 as amended: a run whose item listing failed, or whose catalog request
\* failed with a network error, sends nothing to the destination.
C6_ListingOrNetworkFailureAborts ==
    (fetched.items \in FetchFailures \/ fetched.colls = "neterror")
        => sent = <<>>

\* C6 witness: the catalog request failed with a network error and the run
\* ended on the exception at a reference it would have processed
C6_Witness ==
    /\ fetched.colls = "neterror"
    /\ pc = "crashed"
    /\ idx <= Len(references.val)
    /\ references.val[idx].shape = "ok"
    /\ sent = <<>>

\* C7: in both modes no request is sent for a reference without a title and
\* the run does not end on an exception at such a reference.
C7_UntitledSkipped ==
    references.bound =>
        /\ \A n \in 1..Len(sent) : references.val[sent[n].ref].shape = "ok"
        /\ ~(/\ pc = "crashed"
             /\ idx <= Len(references.val)
             /\ references.val[idx].shape # "ok")

Matching ==
    {i \in 1..Len(references.val) :
        references.val[i].shape = "ok" /\ references.val[i].title = search_title}
FirstMatching ==
    IF Matching = {} THEN 0 ELSE CHOOSE i \in Matching : \A j \in Matching : i <= j

\* C8: a single-title sync sends at most one write, every request and log
\* line of the run belongs to the first reference whose title is the
\* prompted one (so none is sent when no reference matches), and the run is
\* over once that reference was processed.
C8_SingleProcessesFirstMatchOnly ==
    (mode = "single" /\ references.bound) =>
        /\ Cardinality(Writes(sent)) <= 1
        /\ \A n \in 1..Len(sent) : sent[n].ref = FirstMatching
        /\ \A n \in 1..Len(log) : log[n].ref \in {0, FirstMatching}
        /\ (sent # <<>> => pc = "done")

\* C8 witness: the run is over after locating the first of several
\* references with the prompted title
C8_Witness ==
    /\ mode = "single"
    /\ pc = "done"
    /\ sent # <<>>
    /\ Cardinality(Matching) > 1

\* the collection names a reference resolves to
ResolvedNames == collection_filters(f_names)

\* C9 as claimed: a record the locator returns has the reference's title
\* and exactly the reference's resolved collection-name set.
C9_MatchesTitleAndCollectionSet ==
    (f_result.called /\ f_result.found) =>
        /\ notion[f_result.page_id].title = f_title
        /\ notion[f_result.page_id].colls = ResolvedNames

\* C9 as amended: a record the locator returns has the reference's title
\* and, when the reference resolves to at least one collection name, holds
\* at least one of those names.
C9_MatchesTitleAndSomeCollection ==
    (f_result.called /\ f_result.found) =>
        /\ notion[f_result.page_id].title = f_title
        /\ (ResolvedNames = {}
            \/ notion[f_result.page_id].colls \cap ResolvedNames # {})

\* C9 witness: the locator returned a record whose collection set differs
\* from the set the reference resolves to
C9_Witness ==
    /\ f_result.called
    /\ f_result.found
    /\ ResolvedNames # {}
    /\ notion[f_result.page_id].colls # ResolvedNames

\* C10: for every response whose body parses, the locator does not raise;
\* it returns the identifier and Modified Date of the first record of the
\* response when the response holds records (with a warning when it holds
\* several), and (None, None) otherwise.
C10_FirstRecordOrAbsent ==
    (f_result.called /\ f_result.outcome \in {"ok", "non200", "malformed200"}) =>
        LET results == IF f_result.outcome = "ok"
                       THEN QueryResults(notion, f_title, ResolvedNames)
                       ELSE <<>>
        IN  /\ ~f_result.raised
            /\ IF results # <<>>
               THEN /\ f_result.found
                    /\ f_result.page_id = results[1].id
                    /\ f_result.modified = results[1].modified
                    /\ (Len(results) > 1 => f_result.warned)
               ELSE ~f_result.found

\* no two records of the destination share the pair (title, collection set)
NoDuplicatePairs(db) ==
    \A i \in 1..Len(db), j \in 1..Len(db) :
        (i # j) => ~(db[i].title = db[j].title /\ db[i].colls = db[j].colls)

Logged(m) == \E n \in 1..Len(log) : log[n].msg = m

Called(fn) == m_fn = fn /\ m_ret.done

\* what the ordered format list gives for a string of each shape
NormalisedDate(s, include_time) ==
    CASE s.kind = "tz" /\ include_time  -> DateStr("naive", s.day, s.hour, 0)
      [] s.kind = "tz" /\ ~include_time -> DateStr("date", s.day, 0, 0)
      [] s.kind = "date"                -> DateStr("date", s.day, 0, 0)
      [] s.kind \in {"ym", "y"}         -> DateStr("date", 0, 0, 0)
      [] OTHER                          -> NoneDate

\* C12: parse_date returns for every string: None for an empty string and
\* for one that matches none of the four formats; otherwise the first
\* matching format's value, printed with the time of day when that format is
\* the full timestamp and include_time is set, and as a date in every other
\* case.  No call raises.
C12_ParseDateTotalAndOrdered ==
    Called("parse_date") =>
        /\ ~m_ret.raised
        /\ m_ret.val = NormalisedDate(m_arg.date_str, m_arg.include_time)

\* C12 witness: a full timestamp was normalised with its time of day
C12_Witness ==
    /\ Called("parse_date")
    /\ m_arg.date_str.kind = "tz"
    /\ m_arg.include_time
    /\ m_ret.val.kind = "naive"

\* the display name of a well-formed creator
DisplayName(creator) ==
    IF "name" \in DOMAIN creator /\ creator["name"] # <<>>
    THEN creator["name"]
    ELSE (IF "firstName" \in DOMAIN creator THEN creator["firstName"] ELSE <<>>)
         \o <<" ">>
         \o (IF "lastName" \in DOMAIN creator THEN creator["lastName"] ELSE <<>>)

\* the display names of a list's creators, each followed by ", " but the last
RECURSIVE NamesJoined(_)
NamesJoined(items) ==
    IF items = <<>> THEN <<>>
    ELSE DisplayName(Head(items).fields)
         \o (IF Len(items) > 1 THEN <<", ">> ELSE <<>>)
         \o NamesJoined(Tail(items))

\* every entry is an object holding name, firstName or lastName
WellFormedCreators(creators) ==
    /\ creators.islist
    /\ \A k \in 1..Len(creators.items) :
          /\ creators.items[k].isdict
          /\ DOMAIN creators.items[k].fields \cap {"name", "firstName", "lastName"} # {}

\* C13: for a list of well-formed creators format_authors returns the
\* creators' display names in input order joined by ", ": the name when it
\* is not empty, otherwise firstName, a space and lastName with a missing
\* part empty; the empty list gives the empty string, and the claim's
\* example gives "Acme Corp, Jane Doe".
C13_AuthorsJoinedInOrder ==
    /\ (Called("format_authors") /\ WellFormedCreators(m_arg)) =>
           /\ ~m_ret.raised
           /\ m_ret.val = PyStr(NamesJoined(m_arg.items))
    /\ format_authors(PyList(<<>>)) = PyStr(<<>>)
    /\ format_authors(PyList(<<Item(TRUE, "name" :> <<"Acme Corp">>),
                               Item(TRUE, ("firstName" :> <<"Jane">>)
                                          @@ ("lastName" :> <<"Doe">>))>>))
           = PyStr(<<"Acme Corp", ", ", "Jane", " ", "Doe">>)

\* C13 witness: an organisation and a person without a first name were
\* formatted
C13_Witness ==
    /\ Called("format_authors")
    /\ m_ret.val = PyStr(<<"Acme Corp", ", ", " ", "Doe">>)

PayloadBuilt == Called("update_reference_in_notion") \/ Called("add_reference_to_notion")

WellFormedCreator(creator) ==
    creator.isdict /\ DOMAIN creator.fields \cap {"name", "firstName", "lastName"} # {}

WellFormedTag(tag) == tag.isdict /\ "tag" \in DOMAIN tag.fields

\* C14: in a payload, Authors is the joined display names of the list's
\* well-formed creators and Tags holds the list's well-formed tags, whatever
\* malformed entries the lists hold besides.
C14_MalformedEntriesSkipped ==
    PayloadBuilt =>
        LET creators == SelectSeq(m_arg.data.creators.items, WellFormedCreator)
            tags == SelectSeq(m_arg.data.tags, WellFormedTag)
        IN  /\ m_ret.val.properties["Authors"] = PyStr(NamesJoined(creators))
            /\ m_ret.val.properties["Tags"] = [k \in 1..Len(tags) |-> tags[k].fields["tag"]]

\* C15: process_abstract returns at most 2000 characters: an abstract of at
\* most 2000 characters unchanged, a longer one as its first 1997 characters
\* followed by "...", which is 2000 characters, and the empty string for an
\* absent abstract and for one that is no string.
C15_AbstractAtMost2000 ==
    Called("process_abstract") =>
        /\ ~m_ret.raised
        /\ Len(m_ret.val) <= 2000
        /\ IF ~m_arg.present \/ ~m_arg.isstr THEN m_ret.val = <<>>
           ELSE IF Len(m_arg.text) <= 2000 THEN m_ret.val = m_arg.text
           ELSE /\ Len(m_ret.val) = 2000
                /\ \A k \in 1..1997 : m_ret.val[k] = m_arg.text[k]
                /\ \A k \in 1998..2000 : m_ret.val[k] = 0

\* C15 witness: an abstract of 2500 characters was cut
C15_Witness ==
    /\ Called("process_abstract")
    /\ m_arg.isstr
    /\ Len(m_arg.text) = 2500
    /\ Len(m_ret.val) = 2000

\* C16: for a non-empty identifier list format_collection_names returns,
\* without raising, a list of the same length and order holding the catalog
\* name of each known identifier and "" for each unknown one; and in a
\* payload neither the Collections property nor the locator's collection
\* filters hold "", while every resolved name stays in both.
C16_UnknownIdentifiersResolveToEmpty ==
    /\ (/\ Called("format_collection_names")
        /\ m_arg.collection_ids.shape = "list"
        /\ m_arg.collection_ids.ids # <<>>) =>
           LET ids == m_arg.collection_ids.ids IN
           /\ ~m_ret.raised
           /\ Len(m_ret.val) = Len(ids)
           /\ \A k \in 1..Len(ids) :
                 m_ret.val[k] = IF ids[k] \in DOMAIN m_arg.collections
                                THEN m_arg.collections[ids[k]] ELSE ""
    /\ PayloadBuilt =>
           LET sent_names == m_ret.val.properties["Collections"]
               resolved == {Catalog[i] : i \in {m_arg.ids[k] : k \in 1..Len(m_arg.ids)}
                                                \cap DOMAIN Catalog}
           IN  /\ \A k \in 1..Len(sent_names) : sent_names[k] # ""
               /\ {sent_names[k] : k \in 1..Len(sent_names)} = resolved
               /\ m_ret.val.filters = resolved

\* C16 witness: a payload was built for a reference with a known and an
\* unknown identifier
C16_Witness ==
    /\ PayloadBuilt
    /\ m_ret.val.names = <<"A", "">>
    /\ m_ret.val.properties["Collections"] = <<"A">>

\* C17: format_collection_names returns the empty list, and does not raise,
\* when the identifier list is empty or is no list.
C17_EmptyOrMalformedGivesEmptyList ==
    (/\ Called("format_collection_names")
     /\ (m_arg.collection_ids.shape # "list" \/ m_arg.collection_ids.ids = <<>>)) =>
        /\ ~m_ret.raised
        /\ m_ret.val = <<>>

\* the mapping of the well-formed entries of a catalog response, a later
\* entry replacing an earlier one with the same key
RECURSIVE WellFormedMapping(_, _)
WellFormedMapping(entries, acc) ==
    IF entries = <<>> THEN acc
    ELSE WellFormedMapping(
             Tail(entries),
             IF Head(entries).shape # "ok" THEN acc
             ELSE [k \in DOMAIN acc \cup {Head(entries).key} |->
                      IF k = Head(entries).key THEN Head(entries).name ELSE acc[k]])

\* C18: fetch_collections does not raise on a malformed catalog entry and
\* returns the mapping of exactly the well-formed entries.
C18_MalformedEntriesSkipped ==
    Called("fetch_collections") =>
        /\ ~m_ret.raised
        /\ m_ret.val = WellFormedMapping(m_arg, EmptyDict)

\* the date properties with the source field and the include_time flag of each
DateProperties ==
    { <<"Date Accessed", m_arg.data.accessDate, FALSE>>,
      <<"Publication Date", m_arg.data.date, FALSE>>,
      <<"Modified Date", m_arg.data.dateModified, TRUE>> }

\* C19: a payload holds Date Accessed, Publication Date and Modified Date
\* exactly when the normalised value of its source field is not None, and
\* then carries that value; no payload holds one of them with None or "".
C19_DatesPresentIffNormalised ==
    PayloadBuilt =>
        \A p \in DateProperties :
            /\ (p[1] \in DOMAIN m_ret.val.properties) <=> (NormalisedDate(p[2], p[3]) # NoneDate)
            /\ (p[1] \in DOMAIN m_ret.val.properties) =>
                   /\ m_ret.val.properties[p[1]] = NormalisedDate(p[2], p[3])
                   /\ m_ret.val.properties[p[1]].kind \notin {"None", "empty"}

\* C19 witness: a payload with Date Accessed but, the source's date being
\* unparseable and its dateModified absent, without the two other dates
C19_Witness ==
    /\ PayloadBuilt
    /\ m_arg.data.date.kind = "junk"
    /\ m_arg.data.dateModified.kind = "empty"
    /\ "Date Accessed" \in DOMAIN m_ret.val.properties
    /\ "Publication Date" \notin DOMAIN m_ret.val.properties
    /\ "Modified Date" \notin DOMAIN m_ret.val.properties

\* the text properties with the key of the source field of each
TextProperties ==
    { <<"DOI", "DOI">>, <<"Publisher", "publisher">>, <<"Extra", "extra">>,
      <<"Item Type", "itemType">> }

\* the five properties other than Source URL are present and carry the
\* source's text, or the empty string when the source field is absent
TextFieldsPassThrough ==
    /\ \A p \in TextProperties :
          /\ p[1] \in DOMAIN m_ret.val.properties
          /\ m_ret.val.properties[p[1]] =
                 PyStr(IF p[2] \in DOMAIN m_arg.data.scalars
                       THEN m_arg.data.scalars[p[2]] ELSE <<>>)
    /\ "Abstract" \in DOMAIN m_ret.val.properties
    /\ ~m_ret.val.properties["Abstract"].none
    /\ (~m_arg.data.abstractNote.present => m_ret.val.properties["Abstract"].text = <<>>)

\* C20 as claimed: every payload holds url, DOI, publisher, extra, abstract
\* and item type, none of them null, with the empty string when the source
\* field is absent.
C20_ScalarFieldsNeverNull ==
    PayloadBuilt =>
        /\ TextFieldsPassThrough
        /\ "Source URL" \in DOMAIN m_ret.val.properties
        /\ ~m_ret.val.properties["Source URL"].none
        /\ ("url" \notin DOMAIN m_arg.data.scalars =>
                m_ret.val.properties["Source URL"].text = <<>>)

\* C20 as amended: every payload holds the six properties; DOI, publisher,
\* extra, abstract and item type are never null and carry the empty string
\* when the source field is absent; Source URL is null when the source url
\* is absent or empty, and the url otherwise.
C20_ScalarFieldsPresentUrlNullable ==
    PayloadBuilt =>
        /\ TextFieldsPassThrough
        /\ "Source URL" \in DOMAIN m_ret.val.properties
        /\ m_ret.val.properties["Source URL"] =
               IF "url" \in DOMAIN m_arg.data.scalars /\ m_arg.data.scalars["url"] # <<>>
               THEN PyStr(m_arg.data.scalars["url"]) ELSE PyNone

\* C20 witness: a payload for a reference without url and without DOI
C20_Witness ==
    /\ PayloadBuilt
    /\ "url" \notin DOMAIN m_arg.data.scalars
    /\ "DOI" \notin DOMAIN m_arg.data.scalars
    /\ m_ret.val.properties["Source URL"].none
    /\ m_ret.val.properties["DOI"] = PyStr(<<>>)

\* C21: the payload of a page creation holds Status "Not started", Category
\* "Academic" and the reference's title as Title, whatever else the
\* reference holds.
C21_CreateCarriesDefaults ==
    Called("add_reference_to_notion") =>
        /\ {"Title", "Status", "Category"} \subseteq DOMAIN m_ret.val.properties
        /\ m_ret.val.properties["Title"] = m_arg.data.title
        /\ m_ret.val.properties["Status"] = "Not started"
        /\ m_ret.val.properties["Category"] = "Academic"

\* C21 witness: a creation payload for a reference that holds nothing but
\* its title
C21_Witness ==
    /\ Called("add_reference_to_notion")
    /\ m_arg.data.scalars = NoFields
    /\ m_arg.data.creators = PyList(<<>>)
    /\ m_arg.data.dateModified = EmptyDate
    /\ m_ret.val.properties["Status"] = "Not started"

LinesFor(i) == Cardinality({n \in 1..Len(log) : log[n].ref = i})

RECURSIVE ChainFrom(_, _, _)
ChainFrom(srv, k, fuel) ==
    IF fuel = 0 THEN <<>>
    ELSE LET nexts == {j \in 1..Len(srv[k].link.links) : srv[k].link.links[j].rel = "next"}
             n == IF ~srv[k].link.header \/ nexts = {} THEN 0
                  ELSE srv[k].link.links[CHOOSE j \in nexts : \A i \in nexts : j <= i].url
         IN  IF n = 0 THEN <<k>> ELSE <<k>> \o ChainFrom(srv, n, fuel - 1)

RECURSIVE ItemsAlong(_, _)
ItemsAlong(srv, chain) ==
    IF chain = <<>> THEN <<>> ELSE srv[Head(chain)].items \o ItemsAlong(srv, Tail(chain))

\* the chain of continuation links from the first page
Chain == ChainFrom(m_arg, 1, Len(m_arg) + 1)

\* the chain is finite (it ends at a page without a next link) and every
\* page on it answers 200 with a list
FiniteChainAllOk ==
    /\ m_fn = "fetch_zotero_reference"
    /\ Len(Chain) <= Len(m_arg)
    /\ \A k \in 1..Len(Chain) : m_arg[Chain[k]].status = "ok"

\* C23: over a finite chain of pages that all answer 200 the fetch ends, and
\* when it has ended it has requested the pages of the chain once each in
\* link order, the last of them the first without a next link, and returned
\* their items concatenated in that order.
C23_PaginationFollowsChain ==
    /\ [](FiniteChainAllOk => <>m_ret.done)
    /\ []((FiniteChainAllOk /\ m_ret.done) =>
            /\ ~m_ret.raised
            /\ m_ret.val.requested = Chain
            /\ m_ret.val.returned = ItemsAlong(m_arg, Chain))

\* C23 witness: a fetch over three pages ended with the items of all three
C23_Witness ==
    /\ FiniteChainAllOk
    /\ m_ret.done
    /\ Len(Chain) = 3
    /\ Len(m_ret.val.returned) = 6

\* the first request the run sent for reference i
FirstRequest(i) ==
    sent[CHOOSE m \in 1..Len(sent) : sent[m].ref = i /\ \A j \in 1..(m - 1) : sent[j].ref # i]

\* reference i's locate query failed although the destination holds a
\* record the locator matches to it
LocateFailedOnExisting(i) ==
    /\ \E n \in 1..Len(sent) : sent[n].ref = i
    /\ FirstRequest(i).kind = "query"
    /\ FirstRequest(i).outcome \in {"non200", "unparseable"}
    /\ QueryResults(notion, FirstRequest(i).title, FirstRequest(i).names) # <<>>

\* C24: no create request is sent for a reference whose locate query failed
\* with an error status or an unparseable body while the destination holds a
\* matching record.
C24_NoCreateAfterFailedLocate ==
    references.bound =>
        \A i \in 1..Len(references.val) :
            LocateFailedOnExisting(i) => RequestsFor(i, "create") = 0

\* C24 witness: a reference whose locate query failed on an existing record
\* went down the add path and was reported as added
C24_Witness ==
    /\ references.bound
    /\ \E i \in 1..Len(references.val) :
          /\ LocateFailedOnExisting(i)
          /\ \E n \in 1..Len(log) : log[n] = Line(i, "added")

\* C25: update_reference_in_notion validates its reference argument: when
\* the orchestrator calls it with the page the locator found and a reference
\* that holds data, and reports the reference as updated, the update request
\* was sent to that page.
C25_UpdateValidatesReference ==
    references.bound =>
        \A i \in 1..Len(references.val) :
            (\E n \in 1..Len(log) : log[n] = Line(i, "updated")) =>
                \E n \in 1..Len(sent) :
                    /\ sent[n].ref = i
                    /\ sent[n].kind = "patch"
                    /\ sent[n].page = FirstRequest(i).page

\* C26: a Modified Date that was just written from the source's dateModified
\* is judged up to date against the same dateModified.
C26_NormalizerAgreesWithEvaluator ==
    (/\ decision.done
     /\ written_from # NoneDate
     /\ zotero_modified_date = written_from
     /\ notion_modified_date = parse_date(written_from, TRUE))
        => ~decision.value

\* C27: the payload of an update holds no Title, Status or Category.
C27_UpdateLeavesTitleStatusCategory ==
    Called("update_reference_in_notion") =>
        DOMAIN m_ret.val.properties \cap {"Title", "Status", "Category"} = {}

\* C27 witness: an update payload that rewrites the collections and the
\* Modified Date
C27_Witness ==
    /\ Called("update_reference_in_notion")
    /\ m_ret.val.properties["Collections"] # <<>>
    /\ "Modified Date" \in DOMAIN m_ret.val.properties

\* C28: a reference is reported as added or updated only when a write
\* request for it was sent and the destination accepted it.
C28_ReportedOnlyWhenAccepted ==
    references.bound =>
        \A n \in 1..Len(log) :
            log[n].msg \in {"added", "updated"} =>
                \E k \in 1..Len(sent) :
                    /\ sent[k].ref = log[n].ref
                    /\ sent[k].kind = (IF log[n].msg = "added" THEN "create" ELSE "patch")
                    /\ sent[k].outcome = "ok"

====
